---------------------------- MODULE Spec2Model ----------------------------
(***************************************************************************)
(* TinyBling (ATtiny13A, 16 WS2812 pixels).  Two firmware images:          *)
(*   demo : src/software/demo/TinyBling.ino   (ambient animations)         *)
(*   wof  : src/software/wof/TinyBlingWOF.ino (wheel of fortune)           *)
(* The variable prog says which image runs.  All integers are the C types  *)
(* of the source: uint8_t values are kept modulo 256, uint16_t modulo      *)
(* 65536.                                                                  *)
(***************************************************************************)
EXTENDS Integers, Sequences, FiniteSets, TLC

VARIABLES
  prog,        \* which image / harness is running
  pc,          \* position of the main program
  iflag,       \* SREG I bit (global interrupt enable)
  wdtie,       \* watchdog interrupt armed (WDTCR.WDTIE)
  wdtif,       \* watchdog time-out pending (WDTCR.WDTIF)
  NEO_hue,     \* demo: uint8_t NEO_hue[16]
  NEO_bright,  \* demo: uint8_t NEO_bright[16]
  rn,          \* demo: uint16_t rn
  rnd,         \* harness: value returned by the last prng call
  argOrder,    \* demo: order in which the build evaluates the arguments of
               \*       NEO_set(prng(16), prng(192)) (unspecified in C)
  state,       \* demo: main's state
  counter,     \* demo: main's counter
  hue1, hue2, ptr1, ptr2,  \* demo: main's animation parameters
  frame,       \* bytes handed to NEO_sendByte during the last frame
  number, speed, hue,      \* wof: main's locals
  button,      \* wof: TRUE when the button reads pressed (PINB bit low)
  pcif,        \* wof: pin change interrupt pending (GIFR.PCIF)
  ticks,       \* history: demo main loop iterations started
  spins,       \* history: wof spins started
  held,        \* history: ticks completed in the current animation state
  zeroAt,      \* history: value of ticks at the last state-0 tick
  zeroPrev,    \* history: value of ticks at the state-0 tick before that
  snap0,       \* history: <<hue1,hue2,ptr1,ptr2>> after the last completed state-0 tick
  shown,       \* history: frames completed
  trace,       \* history: TRUE in the runs that keep a record of each spin
  spin0,       \* history: wof number, hue, speed, shown at the last spin start
  lastdelay,   \* history: wof argument of the last delayms() call
  heldSince,   \* history: wof button not released since the last spin started
  orig,        \* harness: buffer before the operations applied so far
  lastop,      \* harness: <<name, buffer before it>> of the last operation
  nops         \* harness: operations applied so far

vars == <<prog, pc, iflag, wdtie, wdtif, NEO_hue, NEO_bright, rn, rnd, argOrder,
          state, counter, hue1, hue2, ptr1, ptr2, frame, number, speed, hue,
          button, pcif, ticks, spins, held, zeroAt, zeroPrev, snap0, shown,
          trace, spin0, lastdelay, heldSince, orig, lastop, nops>>

hwVars   == <<iflag, wdtie, wdtif, pcif, button>>
demoVars == <<NEO_hue, NEO_bright, rn, argOrder, state, counter, hue1, hue2, ptr1, ptr2>>
wofVars  == <<number, speed, hue>>
histVars == <<ticks, spins, held, zeroAt, zeroPrev, snap0, shown>>
harnVars == <<orig, lastop, nops, rnd>>
spinVars == <<trace, spin0, lastdelay, heldSince>>

----------------------------------------------------------------------------
(* Bounds of the model *)

MaxTicks == 800     \* demo: main loop iterations explored
MaxSpins == 2       \* wof: spins explored
MaxOps   == 2       \* harness: mixed operations applied to a start buffer
RunLen   == 17      \* harness: repetitions of one operation in a run
MaxCalls == 64      \* harness: prng calls whose results are recorded

----------------------------------------------------------------------------
(* Machine arithmetic *)

Byte == 0..255
Pix  == 0..15

U8(x)  == x % 256
U16(x) == x % 65536

RECURSIVE Pow2(_)
Pow2(n) == IF n = 0 THEN 1 ELSE 2 * Pow2(n - 1)

Shr(x, n) == x \div Pow2(n)

RECURSIVE XorBits(_, _, _)
XorBits(a, b, n) ==
  IF n = 0 THEN 0
  ELSE ((a + b) % 2) + 2 * XorBits(a \div 2, b \div 2, n - 1)

RECURSIVE AndBits(_, _, _)
AndBits(a, b, n) ==
  IF n = 0 THEN 0
  ELSE ((a % 2) * (b % 2)) + 2 * AndBits(a \div 2, b \div 2, n - 1)

----------------------------------------------------------------------------
(* demo: gamma table, NEO_writeColor, NEO_show *)

gamma ==
  <<  0,   0,   0,   0,   0,   0,   0,   1,   1,   1,   2,   2,   3,   3,   4,   5,
      6,   7,   8,  10,  11,  13,  14,  16,  18,  20,  22,  25,  27,  30,  33,  36,
     39,  43,  47,  50,  55,  59,  63,  68,  73,  78,  83,  89,  95, 101, 107, 114,
    120, 127, 135, 142, 150, 158, 167, 175, 184, 193, 203, 213, 223, 233, 244, 255 >>

\* pgm_read_byte(&gamma[i]): a read outside the table yields whatever flash
\* holds there; the model marks it with the non-byte value 256.
GammaAt(i) == IF i \in 0..63 THEN gamma[i + 1] ELSE 256

\* NEO_GRB is defined: the wire order is g, r, b.
NEO_writeColor(r, g, b) == <<g, r, b>>

ShowIndex_unscaled(v, bright) == Shr(v, bright)

\* step >> (6 - NEO_bright[i]); a shift by a negative count is undefined and
\* is marked by the out-of-table index 64.
ShowIndex(v, bright) == IF bright <= 6 THEN Shr(v, 6 - bright) ELSE 64

ShowPixel(h, bright) ==
  LET phase == Shr(h, 6)
      step  == AndBits(h, 63, 8)
      col   == GammaAt(ShowIndex(step, bright))
      ncol  == GammaAt(ShowIndex(63 - step, bright))
  IN  CASE phase = 0 -> NEO_writeColor(ncol, col, 0)
        [] phase = 1 -> NEO_writeColor(0, ncol, col)
        [] phase = 2 -> NEO_writeColor(col, 0, ncol)
        [] OTHER     -> <<>>

RECURSIVE ShowLoop(_, _, _)
ShowLoop(H, B, i) ==
  IF i = 16 THEN <<>> ELSE ShowPixel(H[i], B[i]) \o ShowLoop(H, B, i + 1)

NEO_show(H, B) == ShowLoop(H, B, 0)

----------------------------------------------------------------------------
(* demo: buffer operations.  A buffer is [hue |-> H, bright |-> B].        *)

Buf(H, B) == [hue |-> H, bright |-> B]

NEO_set(b, n, h) ==
  [hue |-> [b.hue EXCEPT ![n] = h], bright |-> [b.bright EXCEPT ![n] = 6]]

NEO_clear(b) == [b EXCEPT !.bright = [i \in Pix |-> 0]]

NEO_fill(b, h) == [b EXCEPT !.hue = [i \in Pix |-> h]]

NEO_fadeIn_noclamp(b) ==
  [b EXCEPT !.bright = [i \in Pix |-> U8(b.bright[i] + 1)]]

NEO_fadeIn(b) ==
  [b EXCEPT !.bright = [i \in Pix |->
      IF b.bright[i] < 6 THEN U8(b.bright[i] + 1) ELSE b.bright[i]]]

NEO_fadeOut_nofloor(b) ==
  [b EXCEPT !.bright = [i \in Pix |-> U8(b.bright[i] - 1)]]

NEO_fadeOut(b) ==
  [b EXCEPT !.bright = [i \in Pix |->
      IF b.bright[i] # 0 THEN U8(b.bright[i] - 1) ELSE b.bright[i]]]

\* for(i=15; i; i--) { bright[i] = bright[i-1]; hue[i] = hue[i-1]; }
RECURSIVE CwLoop(_, _)
CwLoop(b, i) ==
  IF i = 0 THEN b
  ELSE CwLoop([hue    |-> [b.hue    EXCEPT ![i] = b.hue[i - 1]],
               bright |-> [b.bright EXCEPT ![i] = b.bright[i - 1]]], i - 1)

NEO_cw_huesonly(b) ==
  LET htemp == b.hue[15]
      s     == CwLoop(b, 15)
  IN  [hue |-> [s.hue EXCEPT ![0] = htemp], bright |-> b.bright]

NEO_cw(b) ==
  LET btemp == b.bright[15]
      htemp == b.hue[15]
      s     == CwLoop(b, 15)
  IN  [hue    |-> [s.hue    EXCEPT ![0] = htemp],
       bright |-> [s.bright EXCEPT ![0] = btemp]]

\* for(i=0; i<15; i++) { bright[i] = bright[i+1]; hue[i] = hue[i+1]; }
RECURSIVE CcwLoop(_, _)
CcwLoop(b, i) ==
  IF i = 15 THEN b
  ELSE CcwLoop([hue    |-> [b.hue    EXCEPT ![i] = b.hue[i + 1]],
                bright |-> [b.bright EXCEPT ![i] = b.bright[i + 1]]], i + 1)

NEO_ccw(b) ==
  LET btemp == b.bright[0]
      htemp == b.hue[0]
      s     == CcwLoop(b, 0)
  IN  [hue    |-> [s.hue    EXCEPT ![15] = htemp],
       bright |-> [s.bright EXCEPT ![15] = btemp]]

----------------------------------------------------------------------------
(* demo: pseudo random number generator *)

Seed == 44257        \* 0xACE1
Poly == 46080        \* 0xB400

PrngNext_nofeedback(r) == Shr(r, 1)

\* rn = (rn >> 1) ^ (-(rn & 1) & 0xB400), 16-bit unsigned
PrngNext(r) ==
  XorBits(Shr(r, 1), AndBits(U16(0 - AndBits(r, 1, 16)), Poly, 16), 16)

prng_stale(r, maxvalue) == [rn |-> PrngNext(r), val |-> r % maxvalue]

\* prng(maxvalue): the new rn and the value returned
prng(r, maxvalue) == [rn |-> PrngNext(r), val |-> PrngNext(r) % maxvalue]

----------------------------------------------------------------------------
(* demo: the animation of one loop iteration (the switch of main).  The    *)
(* locals and globals it works on travel in a record m.                    *)

Hold == 76

Wrap192(h) == IF h > 191 THEN U8(h - 192) ELSE h

main_case0_clear(m) ==
  [m EXCEPT !.buf = NEO_clear(m.buf),
            !.hue1 = 0, !.hue2 = 96, !.ptr1 = 0, !.ptr2 = 8, !.counter = 1]

main_case0(m) ==
  [m EXCEPT !.hue1 = 0, !.hue2 = 96, !.ptr1 = 0, !.ptr2 = 8, !.counter = 1]

main_case1(m) ==
  LET h1 == Wrap192(U8(m.hue1 + 4))
      h2 == Wrap192(U8(m.hue2 + 4))
      p1 == AndBits(U8(m.ptr1 + 1), 15, 8)
      p2 == AndBits(U8(m.ptr2 + 1), 15, 8)
  IN  [m EXCEPT !.hue1 = h1, !.hue2 = h2, !.ptr1 = p1, !.ptr2 = p2,
                !.buf = NEO_set(NEO_set(NEO_fadeOut(m.buf), p1, h1), p2, h2)]

\* for(uint8_t i=prng(4); i; i--) NEO_set(prng(16), prng(192));
RECURSIVE SparkleLoop(_, _, _, _)
SparkleLoop(b, r, i, ord) ==
  IF i = 0 THEN [buf |-> b, rn |-> r]
  ELSE LET first  == prng(r, IF ord = "lr" THEN 16 ELSE 192)
           second == prng(first.rn, IF ord = "lr" THEN 192 ELSE 16)
           n      == IF ord = "lr" THEN first.val ELSE second.val
           h      == IF ord = "lr" THEN second.val ELSE first.val
       IN  SparkleLoop(NEO_set(b, U8(n), U8(h)), second.rn, i - 1, ord)

main_case2(m) ==
  LET c == prng(m.rn, 4)
      r == SparkleLoop(NEO_fadeOut(m.buf), c.rn, U8(c.val), m.ord)
  IN  [m EXCEPT !.buf = r.buf, !.rn = r.rn]

\* for(uint8_t i=0; i<16; i++) NEO_set(i, prng(192));
RECURSIVE RandomizeLoop(_, _, _)
RandomizeLoop(b, r, i) ==
  IF i = 16 THEN [buf |-> b, rn |-> r]
  ELSE LET c == prng(r, 192)
       IN  RandomizeLoop(NEO_set(b, i, U8(c.val)), c.rn, i + 1)

main_case3_hold(m) ==
  LET r == RandomizeLoop(m.buf, m.rn, 0)
  IN  [m EXCEPT !.buf = r.buf, !.rn = r.rn]

main_case3_short(m) ==
  LET r == RandomizeLoop(m.buf, m.rn, 1)
  IN  [m EXCEPT !.buf = r.buf, !.rn = r.rn, !.counter = 1]

main_case3(m) ==
  LET r == RandomizeLoop(m.buf, m.rn, 0)
  IN  [m EXCEPT !.buf = r.buf, !.rn = r.rn, !.counter = 1]

\* for(i..) { NEO_hue[i] += prng(8); if(NEO_hue[i] > 191) NEO_hue[i] -= 192; }
RECURSIVE DriftLoop_nowrap(_, _, _)
DriftLoop_nowrap(b, r, i) ==
  IF i = 16 THEN [buf |-> b, rn |-> r]
  ELSE LET c == prng(r, 8)
           h == U8(b.hue[i] + c.val)
       IN  DriftLoop_nowrap([b EXCEPT !.hue[i] = h], c.rn, i + 1)

RECURSIVE DriftLoop(_, _, _)
DriftLoop(b, r, i) ==
  IF i = 16 THEN [buf |-> b, rn |-> r]
  ELSE LET c == prng(r, 8)
           h == Wrap192(U8(b.hue[i] + c.val))
       IN  DriftLoop([b EXCEPT !.hue[i] = h], c.rn, i + 1)

main_case4_nowrap(m) ==
  LET r == DriftLoop_nowrap(m.buf, m.rn, 0)
  IN  [m EXCEPT !.buf = r.buf, !.rn = r.rn]

main_case4(m) ==
  LET r == DriftLoop(m.buf, m.rn, 0)
  IN  [m EXCEPT !.buf = r.buf, !.rn = r.rn]

\* hue1 = 0; for(uint8_t i=0; i<16; i++, hue1+=12) NEO_set(i, hue1);
RECURSIVE RainbowLoop(_, _, _)
RainbowLoop(b, h, i) ==
  IF i = 16 THEN [buf |-> b, hue1 |-> h]
  ELSE RainbowLoop(NEO_set(b, i, h), U8(h + 12), i + 1)

main_case5_hold(m) ==
  LET r == RainbowLoop(m.buf, 0, 0)
  IN  [m EXCEPT !.buf = r.buf, !.hue1 = r.hue1]

main_case5(m) ==
  LET r == RainbowLoop(m.buf, 0, 0)
  IN  [m EXCEPT !.buf = r.buf, !.hue1 = r.hue1, !.counter = 1]

main_case6(m) == [m EXCEPT !.buf = NEO_cw(m.buf)]

main_case7(m) ==
  LET h1 == Wrap192(U8(m.hue1 + 3))
  IN  [m EXCEPT !.hue1 = h1, !.buf = NEO_fill(m.buf, h1)]

Animate(s, m) ==
  CASE s = 0 -> main_case0(m)
    [] s = 1 -> main_case1(m)
    [] s = 2 -> main_case2(m)
    [] s = 3 -> main_case3(m)
    [] s = 4 -> main_case4(m)
    [] s = 5 -> main_case5(m)
    [] s = 6 -> main_case6(m)
    [] s = 7 -> main_case7(m)
    [] OTHER -> m

\* if(!(--counter)) { counter = 76; if(++state > 7) state = 0; }
CountStep_nowrap(c, s) ==
  IF U8(c - 1) = 0 THEN [counter |-> Hold, state |-> U8(s + 1)]
  ELSE [counter |-> U8(c - 1), state |-> s]

CountStep(c, s) ==
  IF U8(c - 1) = 0
  THEN [counter |-> Hold, state |-> IF U8(s + 1) > 7 THEN 0 ELSE U8(s + 1)]
  ELSE [counter |-> U8(c - 1), state |-> s]

----------------------------------------------------------------------------
(* Interrupts.  A pending, enabled interrupt is taken before the next      *)
(* instruction of the main program.                                        *)

IntPending == iflag /\ ((wdtie /\ wdtif) \/ pcif)

----------------------------------------------------------------------------
(* demo: main *)

\* values an uninitialised uint8_t local may hold
Uninit == {0, 255}

NoFrame == <<>>
ZeroBuf == [i \in Pix |-> 0]

DemoInit ==
  /\ prog = "demo" /\ pc = "boot"
  /\ iflag = FALSE /\ wdtie = FALSE /\ wdtif = FALSE
  /\ pcif = FALSE /\ button = FALSE
  /\ NEO_hue = ZeroBuf /\ NEO_bright = ZeroBuf
  /\ rn = Seed /\ argOrder \in {"lr", "rl"}
  /\ state = 0
  /\ counter \in Uninit /\ hue1 \in Uninit /\ hue2 \in Uninit
  /\ ptr1 \in Uninit /\ ptr2 \in Uninit
  /\ frame = NoFrame
  /\ number = 0 /\ speed = 0 /\ hue = 0
  /\ ticks = 0 /\ spins = 0 /\ held = 0 /\ zeroAt = 0 /\ zeroPrev = 0
  /\ snap0 = <<>> /\ shown = 0
  /\ trace = FALSE /\ spin0 = <<>> /\ lastdelay = 0 /\ heldSince = FALSE
  /\ orig = <<>> /\ lastop = <<>> /\ nops = 0 /\ rnd = 0

\* resetWatchdog(): cli ... sei, one uninterruptible step
DemoResetWatchdog ==
  /\ prog = "demo" /\ pc \in {"boot", "wdr"} /\ ~IntPending
  /\ wdtie' = TRUE /\ wdtif' = FALSE /\ iflag' = TRUE
  /\ pc' = IF pc = "boot" THEN "animate" ELSE "sleep"
  /\ UNCHANGED <<spinVars, prog, pcif, button, demoVars, wofVars, histVars,
                 harnVars, frame>>

\* the switch(state) of main up to (not including) the call of NEO_show
DemoAnimate ==
  /\ prog = "demo" /\ pc = "animate" /\ ~IntPending
  /\ ticks < MaxTicks
  /\ LET m == Animate(state, [buf |-> Buf(NEO_hue, NEO_bright), rn |-> rn,
                              ord |-> argOrder, hue1 |-> hue1, hue2 |-> hue2,
                              ptr1 |-> ptr1, ptr2 |-> ptr2, counter |-> counter])
     IN  /\ NEO_hue' = m.buf.hue /\ NEO_bright' = m.buf.bright
         /\ rn' = m.rn
         /\ hue1' = m.hue1 /\ hue2' = m.hue2
         /\ ptr1' = m.ptr1 /\ ptr2' = m.ptr2
         /\ counter' = m.counter
  /\ pc' = IF state \in 1..7 THEN "show" ELSE "count"
  /\ ticks' = ticks + 1
  /\ zeroAt'   = IF state = 0 THEN ticks + 1 ELSE zeroAt
  /\ zeroPrev' = IF state = 0 THEN zeroAt ELSE zeroPrev
  /\ UNCHANGED <<spinVars, prog, hwVars, argOrder, state, wofVars, spins, held,
                 snap0, shown, harnVars, frame>>

\* NEO_show(): first byte not yet sent
DemoShowBegin ==
  /\ prog = "demo" /\ pc = "show" /\ ~IntPending
  /\ pc' = "showing" /\ frame' = NoFrame
  /\ UNCHANGED <<spinVars, prog, hwVars, demoVars, wofVars, histVars, harnVars>>

\* NEO_show(): the 16 pixels have been written
DemoShowEnd ==
  /\ prog = "demo" /\ pc = "showing" /\ ~IntPending
  /\ pc' = "count" /\ frame' = NEO_show(NEO_hue, NEO_bright)
  /\ shown' = shown + 1
  /\ UNCHANGED <<spinVars, prog, hwVars, demoVars, wofVars, ticks, spins, held,
                 zeroAt,
                 zeroPrev, snap0, harnVars>>

DemoCount ==
  /\ prog = "demo" /\ pc = "count" /\ ~IntPending
  /\ LET n == CountStep(counter, state)
     IN  /\ counter' = n.counter /\ state' = n.state
         /\ held' = IF n.state = state THEN held + 1 ELSE 0
  /\ snap0' = IF state = 0 THEN <<hue1, hue2, ptr1, ptr2>> ELSE snap0
  /\ pc' = "wdr"
  /\ UNCHANGED <<spinVars, prog, hwVars, NEO_hue, NEO_bright, rn, argOrder,
                 hue1, hue2,
                 ptr1, ptr2, wofVars, ticks, spins, zeroAt, zeroPrev, shown,
                 harnVars, frame>>

\* sleep_mode(): the sleep instruction
DemoSleep ==
  /\ prog = "demo" /\ pc = "sleep" /\ ~IntPending
  /\ pc' = "asleep"
  /\ UNCHANGED <<spinVars, prog, hwVars, demoVars, wofVars, histVars, harnVars,
                 frame>>

\* the watchdog timer runs out
WdtExpire ==
  /\ prog = "demo" /\ wdtie /\ ~wdtif
  /\ wdtif' = TRUE
  /\ UNCHANGED <<spinVars, prog, pc, iflag, wdtie, pcif, button, demoVars,
                 wofVars,
                 histVars, harnVars, frame>>

DemoWdtISR_armed ==
  /\ prog = "demo" /\ iflag /\ wdtie /\ wdtif
  /\ wdtif' = FALSE /\ wdtie' = wdtie
  /\ pc' = IF pc = "asleep" THEN "animate" ELSE pc
  /\ UNCHANGED <<spinVars, prog, iflag, pcif, button, demoVars, wofVars,
                 histVars, harnVars, frame>>

\* ISR(WDT_vect): wdt_disable(); wakes the CPU when it sleeps
DemoWdtISR ==
  /\ prog = "demo" /\ iflag /\ wdtie /\ wdtif
  /\ wdtif' = FALSE /\ wdtie' = FALSE
  /\ pc' = IF pc = "asleep" THEN "animate" ELSE pc
  /\ UNCHANGED <<spinVars, prog, iflag, pcif, button, demoVars, wofVars,
                 histVars,
                 harnVars, frame>>

----------------------------------------------------------------------------
(* wof: NEO_writeHue, NEO_setPixel *)

NEO_writeHue_full(h) ==
  LET phase == Shr(h, 6)
      step  == U8(AndBits(h, 63, 8) * 4)
      nstep == U8(255 - step)
  IN  CASE phase = 0 -> NEO_writeColor(nstep, step, 0)
        [] phase = 1 -> NEO_writeColor(0, nstep, step)
        [] phase = 2 -> NEO_writeColor(step, 0, nstep)
        [] OTHER     -> <<>>

NEO_writeHue(h) ==
  LET phase == Shr(h, 6)
      step  == U8(AndBits(h, 63, 8) * 4)
      nstep == U8(63 * 4 - step)
  IN  CASE phase = 0 -> NEO_writeColor(nstep, step, 0)
        [] phase = 1 -> NEO_writeColor(0, nstep, step)
        [] phase = 2 -> NEO_writeColor(step, 0, nstep)
        [] OTHER     -> <<>>

RECURSIVE SetPixelLoop(_, _, _)
SetPixelLoop(nr, h, i) ==
  IF i = 16 THEN <<>>
  ELSE (IF i = nr THEN NEO_writeHue(h) ELSE NEO_writeColor(0, 0, 0))
         \o SetPixelLoop(nr, h, i + 1)

\* the bytes NEO_setPixel(nr, hue) sends between its cli() and sei()
NEO_setPixel(nr, h) == SetPixelLoop(nr, h, 0)

----------------------------------------------------------------------------
(* wof: main *)

\* if(++hue > 191) hue = 0;
NextHue_nowrap(h) == U8(h + 1)

NextHue(h) == IF U8(h + 1) > 191 THEN 0 ELSE U8(h + 1)

NextNumber_mask7(n) == AndBits(U8(n + 1), 7, 8)

\* number = (number + 1) & 15;
NextNumber(n) == AndBits(U8(n + 1), 15, 8)

SpeedEnd == 96

StartSpeed_even(t) == U8(16 + AndBits(t, 14, 8))

\* speed = 16 + (TCNT0 & 15), for the timer value t
StartSpeed(t) == U8(16 + AndBits(t, 15, 8))

\* how often the body of while(--speed) { ... } runs when the loop is
\* entered with the given speed (it leaves with speed 0)
RECURSIVE AccelCount(_)
AccelCount(sp) == IF U8(sp - 1) # 0 THEN 1 + AccelCount(U8(sp - 1)) ELSE 0

\* how often the body of while(++speed < 96) { ... } runs
RECURSIVE DecelCount(_)
DecelCount(sp) == IF U8(sp + 1) < SpeedEnd THEN 1 + DecelCount(U8(sp + 1)) ELSE 0

\* number after k runs of a loop body: number = (number + 1) & 15;
\* the k runs are taken as k \div 16 groups of 16 runs and k % 16 more
Advance(n, k) ==
  LET step == [p \in Pix |-> NextNumber(p)]
      few[j \in 0..16] ==
        [p \in Pix |-> IF j = 0 THEN p ELSE step[few[j - 1][p]]]
      groups[c \in 0..(k \div 16)] ==
        [p \in Pix |-> IF c = 0 THEN p ELSE few[16][groups[c - 1][p]]]
  IN  few[k % 16][groups[k \div 16][n]]

\* the position at which a spin that starts at n0 with speed s ends
\* (both loops have the same body; the second is entered with speed 0)
Landing(n0, s) == Advance(n0, AccelCount(s) + DecelCount(0))

\* program positions at which NEO_setPixel is called, while it transmits,
\* and where it returns to
TxOf(p) ==
  CASE p = "setup"    -> "setup_tx"
    [] p = "accel_px" -> "accel_tx"
    [] p = "decel_px" -> "decel_tx"

AfterTx(p) ==
  CASE p = "setup_tx" -> "sleep"
    [] p = "accel_tx" -> "accel_delay"
    [] p = "decel_tx" -> "decel_delay"

WofPowerUp(tr) ==
  /\ prog = "wof" /\ pc = "setup"
  /\ iflag = FALSE /\ wdtie = FALSE /\ wdtif = FALSE
  /\ pcif = FALSE /\ button \in BOOLEAN
  /\ NEO_hue = ZeroBuf /\ NEO_bright = ZeroBuf
  /\ rn = Seed /\ argOrder = "lr"
  /\ state = 0 /\ counter = 0 /\ hue1 = 0 /\ hue2 = 0 /\ ptr1 = 0 /\ ptr2 = 0
  /\ frame = NoFrame
  /\ number = 0 /\ speed \in Uninit /\ hue = 0
  /\ ticks = 0 /\ spins = 0 /\ held = 0 /\ zeroAt = 0 /\ zeroPrev = 0
  /\ snap0 = <<>> /\ shown = 0
  /\ trace = tr /\ spin0 = <<>> /\ lastdelay = 0 /\ heldSince = FALSE
  /\ orig = <<>> /\ lastop = <<>> /\ nops = 0 /\ rnd = 0

WofInit == WofPowerUp(FALSE)

\* NEO_setPixel: cli()
WofSetPixelBegin ==
  /\ prog = "wof" /\ pc \in {"setup", "accel_px", "decel_px"} /\ ~IntPending
  /\ iflag' = FALSE /\ frame' = NoFrame
  /\ pc' = TxOf(pc)
  /\ UNCHANGED <<spinVars, prog, wdtie, wdtif, pcif, button, demoVars, wofVars,
                 histVars,
                 harnVars>>

\* NEO_setPixel: the 16 pixels have been written; sei()
WofSetPixelEnd ==
  /\ prog = "wof" /\ pc \in {"setup_tx", "accel_tx", "decel_tx"} /\ ~IntPending
  /\ frame' = NEO_setPixel(number, hue)
  /\ iflag' = TRUE
  /\ shown' = shown + 1
  /\ pc' = AfterTx(pc)
  /\ UNCHANGED <<spinVars, prog, wdtie, wdtif, pcif, button, demoVars, wofVars,
                 ticks,
                 spins, held, zeroAt, zeroPrev, snap0, harnVars>>

\* sleep_mode(): the sleep instruction
WofSleep ==
  /\ prog = "wof" /\ pc = "sleep" /\ ~IntPending
  /\ pc' = "asleep"
  /\ UNCHANGED <<spinVars, prog, hwVars, demoVars, wofVars, histVars, harnVars,
                 frame>>

\* the button pin changes level: the pin change interrupt flag is set
ButtonPress ==
  /\ prog = "wof" /\ ~button
  /\ button' = TRUE /\ pcif' = TRUE
  /\ UNCHANGED <<spinVars, prog, pc, iflag, wdtie, wdtif, demoVars, wofVars,
                 histVars,
                 harnVars, frame>>

ButtonRelease ==
  /\ prog = "wof" /\ button
  /\ button' = FALSE /\ pcif' = TRUE
  /\ heldSince' = FALSE
  /\ UNCHANGED <<trace, spin0, lastdelay, prog, pc, iflag, wdtie, wdtif,
                 demoVars, wofVars, histVars,
                 harnVars, frame>>

\* EMPTY_INTERRUPT(PCINT0_vect): wakes the CPU when it sleeps
WofPcISR ==
  /\ prog = "wof" /\ iflag /\ pcif
  /\ pcif' = FALSE
  /\ pc' = IF pc = "asleep" THEN "check" ELSE pc
  /\ UNCHANGED <<spinVars, prog, iflag, wdtie, wdtif, button, demoVars,
                 wofVars, histVars,
                 harnVars, frame>>

\* if (~PINB & (1<<BT_PIN)) { speed = 16 + (TCNT0 & 15); ...
WofStartSpin(t) ==
  /\ prog = "wof" /\ pc = "check" /\ ~IntPending
  /\ button /\ spins < MaxSpins
  /\ speed' = StartSpeed(t)
  /\ spins' = spins + 1
  /\ spin0' = IF trace
               THEN [n0 |-> number, h0 |-> hue, f0 |-> shown,
                     s |-> StartSpeed(t)]
               ELSE spin0
  /\ heldSince' = TRUE
  /\ pc' = "accel"
  /\ UNCHANGED <<trace, lastdelay, prog, hwVars, demoVars, number, hue, ticks,
                 held, zeroAt,
                 zeroPrev, snap0, shown, harnVars, frame>>

\* ... the button does not read pressed: back to sleep_mode()
WofNoPress ==
  /\ prog = "wof" /\ pc = "check" /\ ~IntPending
  /\ ~button
  /\ pc' = "sleep"
  /\ UNCHANGED <<spinVars, prog, hwVars, demoVars, wofVars, histVars, harnVars,
                 frame>>

\* while(--speed) { if(++hue > 191) hue = 0; number = (number + 1) & 15; ...
WofAccel ==
  /\ prog = "wof" /\ pc = "accel" /\ ~IntPending
  /\ speed' = U8(speed - 1)
  /\ IF U8(speed - 1) # 0
     THEN /\ hue' = NextHue(hue) /\ number' = NextNumber(number)
          /\ pc' = "accel_px"
     ELSE /\ UNCHANGED <<hue, number>>
          /\ pc' = "decel"
  /\ UNCHANGED <<spinVars, prog, hwVars, demoVars, histVars, harnVars, frame>>

\* while(++speed < 96) { if(++hue > 191) hue = 0; number = (number + 1) & 15; ...
WofDecel ==
  /\ prog = "wof" /\ pc = "decel" /\ ~IntPending
  /\ speed' = U8(speed + 1)
  /\ IF U8(speed + 1) < SpeedEnd
     THEN /\ hue' = NextHue(hue) /\ number' = NextNumber(number)
          /\ pc' = "decel_px"
     ELSE /\ UNCHANGED <<hue, number>>
          /\ pc' = "release"
  /\ UNCHANGED <<spinVars, prog, hwVars, demoVars, histVars, harnVars, frame>>

\* delayms(speed)
WofDelay ==
  /\ prog = "wof" /\ pc \in {"accel_delay", "decel_delay"} /\ ~IntPending
  /\ pc' = IF pc = "accel_delay" THEN "accel" ELSE "decel"
  /\ lastdelay' = speed
  /\ UNCHANGED <<trace, spin0, heldSince, prog, hwVars, demoVars, wofVars,
                 histVars, harnVars, frame>>

WofWaitRelease_nowait ==
  /\ prog = "wof" /\ pc = "release" /\ ~IntPending
  /\ pc' = "debounce"
  /\ UNCHANGED <<spinVars, prog, hwVars, demoVars, wofVars, histVars, harnVars,
                 frame>>

\* while(~PINB & (1<<BT_PIN));  leaves the loop when the button reads released
WofWaitRelease ==
  /\ prog = "wof" /\ pc = "release" /\ ~IntPending
  /\ ~button
  /\ pc' = "debounce"
  /\ UNCHANGED <<spinVars, prog, hwVars, demoVars, wofVars, histVars, harnVars,
                 frame>>

\* _delay_ms(10), then the loop starts over with sleep_mode()
WofDebounce ==
  /\ prog = "wof" /\ pc = "debounce" /\ ~IntPending
  /\ pc' = "sleep"
  /\ UNCHANGED <<spinVars, prog, hwVars, demoVars, wofVars, histVars, harnVars,
                 frame>>

----------------------------------------------------------------------------
(* The two firmware images *)

Init == DemoInit \/ WofInit

Next ==
  \/ DemoResetWatchdog
  \/ DemoAnimate
  \/ DemoShowBegin
  \/ DemoShowEnd
  \/ DemoCount
  \/ DemoSleep
  \/ WdtExpire
  \/ DemoWdtISR
  \/ WofSetPixelBegin
  \/ WofSetPixelEnd
  \/ WofSleep
  \/ ButtonPress
  \/ ButtonRelease
  \/ WofPcISR
  \/ \E t \in Byte : WofStartSpin(t)
  \/ WofNoPress
  \/ WofAccel
  \/ WofDecel
  \/ WofDelay
  \/ WofWaitRelease
  \/ WofDebounce

Spec == Init /\ [][Next]_vars

----------------------------------------------------------------------------
(* Harness for the buffer operations of the demo image: from a start       *)
(* buffer, up to MaxOps operations in any order ("mix"), then one of the   *)
(* rotations or fades repeated up to RunLen times.  orig is the buffer at  *)
(* the start of the run, lastop the last operation and the buffer it was   *)
(* applied to.                                                             *)

Ramp == [hue |-> [i \in Pix |-> 12 * i], bright |-> [i \in Pix |-> i % 7]]

StartBufs == {Buf(ZeroBuf, ZeroBuf), Ramp}
SetArgs   == {0, 15} \X {5, 191}
FillArgs  == {70}
RunOps    == {"cw", "ccw", "fadeIn", "fadeOut"}

Cur == Buf(NEO_hue, NEO_bright)

ApiInit ==
  /\ prog = "api" /\ pc = "mix"
  /\ iflag = FALSE /\ wdtie = FALSE /\ wdtif = FALSE
  /\ pcif = FALSE /\ button = FALSE
  /\ \E b \in StartBufs :
       /\ NEO_hue = b.hue /\ NEO_bright = b.bright
       /\ orig = b
  /\ rn = Seed /\ argOrder = "lr"
  /\ state = 0 /\ counter = 0 /\ hue1 = 0 /\ hue2 = 0 /\ ptr1 = 0 /\ ptr2 = 0
  /\ frame = NoFrame
  /\ number = 0 /\ speed = 0 /\ hue = 0
  /\ ticks = 0 /\ spins = 0 /\ held = 0 /\ zeroAt = 0 /\ zeroPrev = 0
  /\ snap0 = <<>> /\ shown = 0
  /\ trace = FALSE /\ spin0 = <<>> /\ lastdelay = 0 /\ heldSince = FALSE
  /\ lastop = <<>> /\ nops = 0 /\ rnd = 0

apiFrame == <<spinVars, prog, pc, hwVars, rn, argOrder, state, counter, hue1,
              hue2, ptr1,
              ptr2, frame, wofVars, histVars, rnd, orig>>

ApiApply(name, b) ==
  /\ NEO_hue' = b.hue /\ NEO_bright' = b.bright
  /\ lastop' = <<name, Cur>>
  /\ nops' = nops + 1

ApiMix == prog = "api" /\ pc = "mix" /\ nops < MaxOps

ApiSet(n, h) == ApiMix /\ ApiApply("set", NEO_set(Cur, n, h)) /\ UNCHANGED apiFrame
ApiClear     == ApiMix /\ ApiApply("clear", NEO_clear(Cur)) /\ UNCHANGED apiFrame
ApiFill(h)   == ApiMix /\ ApiApply("fill", NEO_fill(Cur, h)) /\ UNCHANGED apiFrame
ApiFadeIn    == ApiMix /\ ApiApply("fadeIn", NEO_fadeIn(Cur)) /\ UNCHANGED apiFrame
ApiFadeOut   == ApiMix /\ ApiApply("fadeOut", NEO_fadeOut(Cur)) /\ UNCHANGED apiFrame
ApiCw        == ApiMix /\ ApiApply("cw", NEO_cw(Cur)) /\ UNCHANGED apiFrame
ApiCcw       == ApiMix /\ ApiApply("ccw", NEO_ccw(Cur)) /\ UNCHANGED apiFrame

ApiBeginRun(k) ==
  /\ prog = "api" /\ pc = "mix"
  /\ pc' = k /\ orig' = Cur /\ nops' = 0 /\ lastop' = <<>>
  /\ UNCHANGED <<spinVars, prog, hwVars, demoVars, frame, wofVars, histVars,
                 rnd>>

RunOp(k, b) ==
  CASE k = "cw"      -> NEO_cw(b)
    [] k = "ccw"     -> NEO_ccw(b)
    [] k = "fadeIn"  -> NEO_fadeIn(b)
    [] k = "fadeOut" -> NEO_fadeOut(b)

ApiRunStep ==
  /\ prog = "api" /\ pc \in RunOps /\ nops < RunLen
  /\ ApiApply(pc, RunOp(pc, Cur))
  /\ UNCHANGED apiFrame

BufInit == ApiInit \/ DemoInit

BufNext ==
  \/ \E a \in SetArgs : ApiSet(a[1], a[2])
  \/ ApiClear
  \/ \E h \in FillArgs : ApiFill(h)
  \/ ApiFadeIn
  \/ ApiFadeOut
  \/ ApiCw
  \/ ApiCcw
  \/ \E k \in RunOps : ApiBeginRun(k)
  \/ ApiRunStep
  \/ DemoResetWatchdog
  \/ DemoAnimate
  \/ DemoShowBegin
  \/ DemoShowEnd
  \/ DemoCount
  \/ DemoSleep
  \/ WdtExpire
  \/ DemoWdtISR

BufSpec == BufInit /\ [][BufNext]_vars

----------------------------------------------------------------------------
(* Harness for prng: calls with the bounds the demo image uses, in any     *)
(* order, from the seed.                                                   *)

PrngBounds == {4, 16, 192, 8}

PrngInit ==
  /\ prog = "prng" /\ pc = "call"
  /\ iflag = FALSE /\ wdtie = FALSE /\ wdtif = FALSE
  /\ pcif = FALSE /\ button = FALSE
  /\ NEO_hue = ZeroBuf /\ NEO_bright = ZeroBuf
  /\ rn = Seed /\ argOrder = "lr"
  /\ state = 0 /\ counter = 0 /\ hue1 = 0 /\ hue2 = 0 /\ ptr1 = 0 /\ ptr2 = 0
  /\ frame = NoFrame
  /\ number = 0 /\ speed = 0 /\ hue = 0
  /\ ticks = 0 /\ spins = 0 /\ held = 0 /\ zeroAt = 0 /\ zeroPrev = 0
  /\ snap0 = <<>> /\ shown = 0
  /\ trace = FALSE /\ spin0 = <<>> /\ lastdelay = 0 /\ heldSince = FALSE
  /\ orig = <<>> /\ lastop = <<>> /\ nops = 0 /\ rnd = 0

\* a call whose result is recorded (the first MaxCalls calls)
PrngCall(maxvalue) ==
  /\ prog = "prng" /\ pc = "call" /\ nops < MaxCalls
  /\ LET c == prng(rn, maxvalue)
     IN  rn' = c.rn /\ rnd' = c.val
  /\ lastop' = <<maxvalue, rn>>
  /\ nops' = nops + 1
  /\ UNCHANGED <<spinVars, prog, pc, hwVars, NEO_hue, NEO_bright, argOrder,
                 state, counter,
                 hue1, hue2, ptr1, ptr2, frame, wofVars, histVars, orig>>

\* a later call: only the generator state is followed
PrngAdvance(maxvalue) ==
  /\ prog = "prng" /\ pc = "call" /\ nops = MaxCalls
  /\ rn' = prng(rn, maxvalue).rn
  /\ rnd' = 0 /\ lastop' = <<>>
  /\ UNCHANGED <<spinVars, prog, pc, hwVars, NEO_hue, NEO_bright, argOrder,
                 state, counter,
                 hue1, hue2, ptr1, ptr2, frame, wofVars, histVars, orig, nops>>

PrngNextRel ==
  \/ \E maxvalue \in PrngBounds : PrngCall(maxvalue)
  \/ \E maxvalue \in PrngBounds : PrngAdvance(maxvalue)

PrngSpec == PrngInit /\ [][PrngNextRel]_vars

----------------------------------------------------------------------------
(* Properties of the demo state machine *)

Params == <<hue1, hue2, ptr1, ptr2>>

\* a state-0 tick has run its switch and an earlier state-0 tick exists
AtZeroAgain == prog = "demo" /\ pc = "count" /\ state = 0 /\ zeroPrev > 0

\* ticks one cycle takes: states 0, 3 and 5 hold one tick, the other five Hold
CycleTicks == 3 * 1 + 5 * Hold

\* C1 as claimed: a state-0 tick comes exactly 8*76 = 608 ticks after the
\* previous state-0 tick, and leaves hue1, hue2, ptr1, ptr2 as that one did.
C1_Original ==
  AtZeroAgain => (zeroAt - zeroPrev = 8 * Hold /\ Params = snap0)

\* C1 amended: a state-0 tick comes exactly 383 = 3*1 + 5*76 ticks after the
\* previous state-0 tick, and leaves hue1, hue2, ptr1, ptr2 as that one did.
C1_Cycle ==
  AtZeroAgain => (zeroAt - zeroPrev = CycleTicks /\ Params = snap0)

\* the third state-0 tick has run: two full cycles lie behind
C1_Witness == AtZeroAgain /\ zeroPrev > 1 /\ snap0 = <<0, 96, 0, 8>>

\* ticks the machine stays in state s
HoldOf(s) == IF s \in {0, 3, 5} THEN 1 ELSE Hold

\* C2 as claimed: each of the states 1..7 is left after exactly 76 ticks in
\* it, state 0 after exactly 1 tick.
C2_Original ==
  [][(prog = "demo" /\ state' # state)
       => held + 1 = (IF state = 0 THEN 1 ELSE Hold)]_vars

\* C2 amended: states 1, 2, 4, 6 and 7 are left after exactly 76 ticks in
\* them (the counter is reloaded with 76 at the transition into them), while
\* states 0, 3 and 5 are left after exactly 1 tick (their tick sets the
\* counter to 1); no state is held longer.
C2_Holds ==
  /\ [](prog = "demo" => held < HoldOf(state))
  /\ [][(prog = "demo" /\ state' # state) => held + 1 = HoldOf(state)]_vars

\* state 7 has just been entered after 76 ticks of state 6, which followed
\* the single tick of state 5
C2_Witness ==
  /\ prog = "demo" /\ pc = "wdr" /\ state = 7 /\ held = 0
  /\ ticks = 1 + Hold + Hold + 1 + Hold + 1 + Hold

\* C3: the animation state is always in 0..7; it changes only in the step
\* that decrements the counter, exactly when the decremented counter is zero,
\* and then from s to (s+1) mod 8.
C3_StateStep ==
  /\ [](prog = "demo" => state \in 0..7)
  /\ [][prog = "demo" =>
          /\ (state' # state) =>
               (pc = "count" /\ pc' = "wdr" /\ state' = (state + 1) % 8)
          /\ (pc = "count" /\ pc' = "wdr") =>
               ((state' # state) <=> (U8(counter - 1) = 0))]_vars

\* the machine has wrapped from state 7 to state 0
C3_Witness == prog = "demo" /\ pc = "wdr" /\ state = 0 /\ counter = Hold /\ ticks > 1

----------------------------------------------------------------------------
(* Properties of the frame driver *)

\* a frame is on the wire: NEO_show (demo) or NEO_setPixel (wof) has been
\* entered and has not returned
Transmitting == pc \in {"showing", "setup_tx", "accel_tx", "decel_tx"}

\* C4: in both images the frame driver runs with interrupts globally
\* disabled from before the first byte until after the last byte.
C4_FrameAtomic == Transmitting => ~iflag

\* the frame on record was sent from the buffer (demo) or from number and
\* hue (wof) as they are now
FrameCurrent ==
  /\ shown > 0
  /\ \/ prog = "demo" /\ pc \in {"count", "wdr", "sleep", "asleep", "animate"}
     \/ prog = "wof"  /\ pc \notin {"setup", "setup_tx", "accel_px", "accel_tx",
                                    "decel_px", "decel_tx"}

\* the bytes sent for pixel i, in wire order
PixelOf(i) == <<frame[3 * i + 1], frame[3 * i + 2], frame[3 * i + 3]>>

\* place, in the wire order G,R,B, of the channel that a hue of the given
\* phase leaves at zero: phase 0 blue, phase 1 red, phase 2 green
ZeroPlace(phase) == CASE phase = 0 -> 3 [] phase = 1 -> 2 [] phase = 2 -> 1

\* C5 as claimed: at the end of every tick every hue held by the program is
\* below 192: the buffer entries, hue1 and hue2 (demo), and hue (wof).
C5_Original ==
  /\ prog = "wof" => hue < 192
  /\ (prog = "demo" /\ ticks > 0 /\ pc \in {"wdr", "sleep", "asleep"}) =>
       /\ \A i \in Pix : NEO_hue[i] < 192
       /\ hue1 < 192 /\ hue2 < 192

\* C5 amended: the wof hue, every buffer entry NEO_hue[i] and hue2 are below
\* 192 at the end of every tick; hue1 is at most 192, and it is 192 only
\* between the state-5 tick (whose loop leaves 16 * 12 in it) and the first
\* state-7 tick, where no hue1 is written to the buffer.
C5_Hues ==
  /\ prog = "wof" => hue < 192
  /\ prog = "demo" => \A i \in Pix : NEO_hue[i] < 192
  /\ (prog = "demo" /\ ticks > 0 /\ pc \in {"wdr", "sleep", "asleep"}) =>
       /\ hue2 < 192
       /\ hue1 <= 192
       /\ hue1 = 192 => state \in {6, 7}

\* the state-5 tick has just ended
C5_Witness ==
  prog = "demo" /\ pc = "wdr" /\ state = 6 /\ held = 0 /\ hue1 = 192

\* C6: every complete frame is 16 pixels of 3 bytes; the hue of every pixel
\* sent has phase 0, 1 or 2, and its three bytes are in the order G,R,B (the
\* channel the phase leaves dark is zero at its place); in the wof image
\* every pixel but the active one is sent as 0,0,0.
C6_Frames ==
  /\ (shown > 0 /\ ~Transmitting) =>
       /\ Len(frame) = 48
       /\ \A k \in 1..Len(frame) : frame[k] \in Byte
  /\ (FrameCurrent /\ prog = "demo") =>
       \A i \in Pix :
         /\ Shr(NEO_hue[i], 6) \in {0, 1, 2}
         /\ 3 * i + 3 <= Len(frame)
         /\ PixelOf(i)[ZeroPlace(Shr(NEO_hue[i], 6))] = 0
  /\ (FrameCurrent /\ prog = "wof") =>
       /\ Shr(hue, 6) \in {0, 1, 2}
       /\ \A i \in Pix :
            /\ 3 * i + 3 <= Len(frame)
            /\ i # number => PixelOf(i) = <<0, 0, 0>>
            /\ i = number => PixelOf(i)[ZeroPlace(Shr(hue, 6))] = 0

\* the wof frame sent right after the hue has wrapped from 191 to 0
C6_Witness ==
  /\ prog = "wof" /\ FrameCurrent /\ pc = "decel_delay"
  /\ hue = 0 /\ shown = 193 /\ Len(frame) = 48

----------------------------------------------------------------------------
(* Properties of the buffer operations and of prng *)

Min(a, b) == IF a < b THEN a ELSE b
Max(a, b) == IF a > b THEN a ELSE b

\* C7: every brightness entry is in 0..6, whatever buffer operations are
\* called and whatever ticks the animation runs, so both gamma indices of
\* NEO_show are inside the 64-entry table.
C7_Bright ==
  \A i \in Pix :
    /\ NEO_bright[i] \in 0..6
    /\ ShowIndex(AndBits(NEO_hue[i], 63, 8), NEO_bright[i]) \in 0..63
    /\ ShowIndex(63 - AndBits(NEO_hue[i], 63, 8), NEO_bright[i]) \in 0..63

\* NEO_fadeIn was called on a buffer that held a pixel at 6 and one below
C7_Witness ==
  /\ prog = "api" /\ lastop # <<>> /\ lastop[1] = "fadeIn"
  /\ \E i, j \in Pix : lastop[2].bright[i] = 6 /\ lastop[2].bright[j] < 6

\* C8: the generator state is never zero.
C8_NonZero == rn # 0

\* the generator has run through its whole period and is back at the seed
C8_Witness == prog = "prng" /\ nops = MaxCalls /\ lastop = <<>> /\ rn = Seed

\* C9: 16 calls of NEO_cw, or 16 of NEO_ccw, restore NEO_hue and NEO_bright;
\* one call moves the (hue, brightness) pair of position i to position
\* (i+1) mod 16 (cw) or (i-1) mod 16 (ccw).
C9_Rotate ==
  prog = "api" =>
    /\ (pc \in {"cw", "ccw"} /\ nops = 16) => Cur = orig
    /\ (lastop # <<>> /\ lastop[1] = "cw") =>
         \A i \in Pix : /\ NEO_hue[(i + 1) % 16] = lastop[2].hue[i]
                        /\ NEO_bright[(i + 1) % 16] = lastop[2].bright[i]
    /\ (lastop # <<>> /\ lastop[1] = "ccw") =>
         \A i \in Pix : /\ NEO_hue[(i + 15) % 16] = lastop[2].hue[i]
                        /\ NEO_bright[(i + 15) % 16] = lastop[2].bright[i]

\* sixteen NEO_cw calls on a buffer whose sixteen pairs are all different
C9_Witness ==
  /\ prog = "api" /\ pc = "cw" /\ nops = 16
  /\ \A i, j \in Pix : i # j => orig.hue[i] # orig.hue[j]

\* C10: NEO_fadeIn maps each brightness b to min(b+1, 6), NEO_fadeOut to
\* max(b-1, 0), and neither changes a hue; so k calls of NEO_fadeIn take a
\* brightness 0 to min(k, 6) and k calls of NEO_fadeOut take 6 to max(6-k, 0).
C10_Fade ==
  prog = "api" =>
    /\ (lastop # <<>> /\ lastop[1] = "fadeIn") =>
         /\ NEO_hue = lastop[2].hue
         /\ \A i \in Pix : NEO_bright[i] = Min(lastop[2].bright[i] + 1, 6)
    /\ (lastop # <<>> /\ lastop[1] = "fadeOut") =>
         /\ NEO_hue = lastop[2].hue
         /\ \A i \in Pix : NEO_bright[i] = Max(lastop[2].bright[i] - 1, 0)
    /\ pc = "fadeIn" =>
         \A i \in Pix : orig.bright[i] = 0 => NEO_bright[i] = Min(nops, 6)
    /\ pc = "fadeOut" =>
         \A i \in Pix : orig.bright[i] = 6 => NEO_bright[i] = Max(6 - nops, 0)

\* a seventh NEO_fadeOut on a pixel that started at 6
C10_Witness ==
  /\ prog = "api" /\ pc = "fadeOut" /\ nops = 7
  /\ orig.bright[6] = 6 /\ NEO_bright[6] = 0

----------------------------------------------------------------------------
(* Properties of prng, stated on the recorded calls of the harness:        *)
(* lastop = <<maxvalue, rn before the call>>, rnd = value returned,        *)
(* nops = number of the call.                                              *)

\* x with bit k inverted
FlipBit(x, k) ==
  IF (x \div Pow2(k)) % 2 = 1 THEN x - Pow2(k) ELSE x + Pow2(k)

\* x XOR 0xB400: bits 15, 13, 12 and 10 inverted
XorB400(x) == FlipBit(FlipBit(FlipBit(FlipBit(x, 15), 13), 12), 10)

\* what the first six calls return when called with bound 16
Golden16 == <<0, 8, 12, 14, 7, 3>>

Recorded == prog = "prng" /\ lastop # <<>>

\* C11: a call takes the state s to (s >> 1) XOR 0xB400 when s is odd and
\* to s >> 1 when s is even, and returns the new state mod bound, a value in
\* [0, bound); the k-th call after the seed, made with bound 16, returns the
\* k-th of 0, 8, 12, 14, 7, 3; every bound passed is one of 4, 16, 192, 8
\* and so not zero.
C11_Prng ==
  Recorded =>
    /\ rn = (IF lastop[2] % 2 = 1 THEN XorB400(lastop[2] \div 2)
                                  ELSE lastop[2] \div 2)
    /\ rn \in 0..65535
    /\ lastop[1] \in {4, 16, 192, 8} /\ lastop[1] # 0
    /\ rnd = rn % lastop[1]
    /\ rnd >= 0 /\ rnd < lastop[1]
    /\ (lastop[1] = 16 /\ nops <= 6) => rnd = Golden16[nops]

\* the sixth call, made with bound 16, has returned 3
C11_Witness == Recorded /\ nops = 6 /\ lastop[1] = 16 /\ rnd = 3

----------------------------------------------------------------------------
(* The three channel values NEO_writeHue hands to NEO_writeColor, read     *)
(* back from the bytes sent for the active pixel of a wof frame.           *)

\* number of zero bytes among the three bytes of a pixel
Zeros(px) == Cardinality({k \in 1..3 : px[k] = 0})

\* the largest of the three bytes of a pixel
Top(px) == Max(px[1], Max(px[2], px[3]))

\* a wof frame sent for the current number and hue is on record
WofFrame == FrameCurrent /\ prog = "wof" /\ Len(frame) = 48

\* C12 as claimed: for every hue in [0,192) with hue mod 64 = 0, exactly one
\* of the three channel values NEO_writeHue passes to NEO_writeColor is zero.
C12_Original ==
  (WofFrame /\ hue % 64 = 0) => Zeros(PixelOf(number)) = 1

\* C12 amended: for every hue in [0,192) with hue mod 64 = 0, exactly two of
\* the three channel values are zero and the third is 252 (the falling ramp
\* at its top, the rising ramp at 0); the same holds at hue mod 64 = 63 with
\* the rising ramp at 252; for every other hue exactly one channel is zero.
C12_Boundary ==
  WofFrame =>
    /\ hue % 64 \in {0, 63} =>
         Zeros(PixelOf(number)) = 2 /\ Top(PixelOf(number)) = 63 * 4
    /\ hue % 64 \in 1..62 => Zeros(PixelOf(number)) = 1
    /\ hue % 64 = 0 =>
         PixelOf(number) = CASE Shr(hue, 6) = 0 -> <<0, 63 * 4, 0>>
                             [] Shr(hue, 6) = 1 -> <<63 * 4, 0, 0>>
                             [] Shr(hue, 6) = 2 -> <<0, 0, 63 * 4>>

\* the frame sent at the boundary between phase 1 and phase 2
C12_Witness == WofFrame /\ hue = 128 /\ PixelOf(number) = <<0, 0, 252>>

----------------------------------------------------------------------------
(* NEO_show on its own: a buffer that holds one hue at every brightness    *)
(* 0..6 is rendered, for every hue of the wheel.                           *)

\* all 16 pixels at hue h, pixel i at brightness i mod 7
ShowBuf(h) == [hue |-> [i \in Pix |-> h], bright |-> [i \in Pix |-> i % 7]]

ShowInit ==
  /\ prog = "show" /\ pc = "buffer"
  /\ iflag = FALSE /\ wdtie = FALSE /\ wdtif = FALSE
  /\ pcif = FALSE /\ button = FALSE
  /\ \E h \in 0..191 :
       /\ NEO_hue = ShowBuf(h).hue /\ NEO_bright = ShowBuf(h).bright
       /\ orig = ShowBuf(h)
  /\ rn = Seed /\ argOrder = "lr"
  /\ state = 0 /\ counter = 0 /\ hue1 = 0 /\ hue2 = 0 /\ ptr1 = 0 /\ ptr2 = 0
  /\ frame = NoFrame
  /\ number = 0 /\ speed = 0 /\ hue = 0
  /\ ticks = 0 /\ spins = 0 /\ held = 0 /\ zeroAt = 0 /\ zeroPrev = 0
  /\ snap0 = <<>> /\ shown = 0
  /\ trace = FALSE /\ spin0 = <<>> /\ lastdelay = 0 /\ heldSince = FALSE
  /\ lastop = <<>> /\ nops = 0 /\ rnd = 0

\* NEO_show() on the buffer
ShowRender ==
  /\ prog = "show" /\ pc = "buffer"
  /\ frame' = NEO_show(NEO_hue, NEO_bright)
  /\ pc' = "sent"
  /\ lastop' = <<"show", Cur>>
  /\ UNCHANGED <<spinVars, prog, hwVars, demoVars, wofVars, histVars, orig,
                 nops, rnd>>

ShowNext == ShowRender

ShowSpec == ShowInit /\ [][ShowNext]_vars

\* places, in the wire order G,R,B, of the rising channel (col) and of the
\* falling channel (ncol) for a hue of the given phase
ColPlace(phase)  == CASE phase = 0 -> 1 [] phase = 1 -> 3 [] phase = 2 -> 2
NcolPlace(phase) == CASE phase = 0 -> 2 [] phase = 1 -> 1 [] phase = 2 -> 3

Rendered == prog = "show" /\ pc = "sent" /\ Len(frame) = 48

\* C13: in a frame sent by NEO_show, for every hue step in 0..63: a pixel
\* of brightness 0 is sent with both ramp channels 0 (gamma[0] = 0); a pixel
\* of brightness 6 is sent with gamma[step] and gamma[63 - step]; a pixel of
\* brightness b in 0..6 is sent with gamma[step >> (6-b)] and
\* gamma[(63-step) >> (6-b)].
C13_Gamma ==
  Rendered =>
    \A i \in Pix :
      LET h    == NEO_hue[i]
          b    == NEO_bright[i]
          step == h % 64
          px   == PixelOf(i)
          col  == px[ColPlace(h \div 64)]
          ncol == px[NcolPlace(h \div 64)]
      IN  /\ b \in 0..6
          /\ gamma[1] = 0
          /\ b = 0 => col = 0 /\ ncol = 0
          /\ b = 6 => col = gamma[step + 1] /\ ncol = gamma[63 - step + 1]
          /\ col  = gamma[(step \div Pow2(6 - b)) + 1]
          /\ ncol = gamma[((63 - step) \div Pow2(6 - b)) + 1]

\* a frame of hue 191 (step 63): the pixel of brightness 6 is sent with the
\* rising channel at 255, the pixel of brightness 0 dark
C13_Witness ==
  /\ Rendered /\ NEO_hue[6] = 191
  /\ NEO_bright[6] = 6 /\ PixelOf(6) = <<0, 255, 0>>
  /\ NEO_bright[0] = 0 /\ PixelOf(0) = <<0, 0, 0>>

----------------------------------------------------------------------------
(* The wof image with a record of each spin: where it started (spin0) and  *)
(* the argument of each delayms() call (lastdelay).                        *)

SpinInit == WofPowerUp(TRUE)

WofNext ==
  \/ WofSetPixelBegin
  \/ WofSetPixelEnd
  \/ WofSleep
  \/ ButtonPress
  \/ ButtonRelease
  \/ WofPcISR
  \/ \E t \in Byte : WofStartSpin(t)
  \/ WofNoPress
  \/ WofAccel
  \/ WofDecel
  \/ WofDelay
  \/ WofWaitRelease
  \/ WofDebounce

SpinSpec == SpinInit /\ [][WofNext]_vars

\* frames rendered since the last spin started
SpinK == shown - spin0.f0

\* the delay that follows the k-th frame of a spin of start speed s:
\* s-1, ..., 1 for the first s-1 frames, then 1, ..., 95
DelayOf(s, k) == IF k <= s - 1 THEN s - k ELSE k - (s - 1)

AccelPcs == {"accel", "accel_px", "accel_tx", "accel_delay"}
DecelPcs == {"decel", "decel_px", "decel_tx", "decel_delay"}

\* C14: the start speed s of a spin is in 16..31; the spin renders s-1
\* frames in the first loop and 95 in the second, s+94 in all, and is then
\* over; the k-th frame lights only pixel (n0+k) mod 16, with hue
\* (h0+k) mod 192; the delay after the k-th frame is s-k for k <= s-1 and
\* k-(s-1) after that, so never 96.
C14_Spin ==
  (prog = "wof" /\ spin0 # <<>>) =>
    LET s == spin0.s
        k == SpinK
    IN  /\ s \in 16..31
        /\ k \in 0..(s + 94)
        /\ pc \in AccelPcs => k <= s - 1
        /\ pc \in DecelPcs => k >= s - 1
        /\ pc \notin AccelPcs \cup DecelPcs => (k = s + 94 /\ lastdelay = 95)
        /\ pc \in {"accel_delay", "decel_delay"} =>
             /\ k >= 1
             /\ number = (spin0.n0 + k) % 16
             /\ hue = (spin0.h0 + k) % 192
             /\ Len(frame) = 48
             /\ \A i \in Pix : (PixelOf(i) # <<0, 0, 0>>) <=> (i = number)
             /\ frame = NEO_setPixel((spin0.n0 + k) % 16, (spin0.h0 + k) % 192)
             /\ speed = DelayOf(s, k)
        /\ (k >= 1 /\ pc \notin {"accel_delay", "decel_delay"}) =>
             lastdelay = DelayOf(s, k)
        /\ lastdelay <= 95

\* a second spin, of start speed 31 from pixel 13 and hue 125, is over after
\* 125 frames
C14_Witness ==
  /\ prog = "wof" /\ pc = "release" /\ spin0 # <<>>
  /\ spin0.s = 31 /\ spin0.n0 = 13 /\ spin0.h0 = 125
  /\ SpinK = 125 /\ hue = 58 /\ number = 10

----------------------------------------------------------------------------
(* wof: the end of a spin *)

\* C15: after a spin the main loop stays at the wait for the release while
\* the button reads pressed and leaves it only for the 10 ms debounce delay;
\* from that delay it goes only to sleep_mode(), and sleep_mode() is reached
\* only from the delay, from a wake-up that found the button released, or
\* from setup; a spin never starts while the button has been held without a
\* break since the spin before.
C15_Rearm ==
  [][ prog = "wof" =>
        /\ (pc = "release" /\ pc' # "release") =>
             (~button /\ pc' = "debounce")
        /\ (pc = "debounce" /\ pc' # "debounce") => pc' = "sleep"
        /\ (pc' = "sleep" /\ pc # "sleep") =>
             \/ pc = "debounce"
             \/ pc = "check" /\ ~button
             \/ pc = "setup_tx"
        /\ spins' > spins => ~heldSince ]_vars

\* the first spin is over, the button was released and the debounce delay
\* runs
C15_Witness ==
  prog = "wof" /\ pc = "debounce" /\ spins = 1 /\ ~heldSince /\ ~button

----------------------------------------------------------------------------
(* demo: sleep and wake-up *)

\* C16: whenever the demo main loop is in sleep_mode() the watchdog
\* interrupt is armed, so that a wake-up, and with it the next tick, is
\* still to come.
C16_WakeArmed == (prog = "demo" /\ pc = "asleep") => wdtie

----------------------------------------------------------------------------
(* wof: sleep and wake-up *)

\* C17: a press is never lost: when the wof main loop is in sleep_mode()
\* after a spin and the button is held, the pin change interrupt of that
\* press is still pending, so that the loop wakes up, reads the button and
\* starts a spin.
C17_PressSeen ==
  (prog = "wof" /\ pc = "asleep" /\ button /\ spins >= 1 /\ spins < MaxSpins)
    => pcif

----------------------------------------------------------------------------
(* demo: frames and ticks *)

\* state-0 ticks among the first t ticks: ticks 1, 1 + CycleTicks, ...
ZeroTicks(t) == IF t = 0 THEN 0 ELSE (t - 1) \div CycleTicks + 1

\* the work of the current tick (switch and NEO_show) is done
TickDone == prog = "demo" /\ pc \in {"count", "wdr", "sleep", "asleep"}

\* the step that runs the switch(state) of a tick
SwitchStep == prog = "demo" /\ pc = "animate" /\ pc' # "animate"

\* C18: a tick in a state 1..7 goes from the switch to NEO_show, which
\* sends one frame, of the buffer as the switch left it, and nothing
\* changes the buffer or sends a frame before the next tick; a tick in
\* state 0 sends no frame, leaves NEO_hue, NEO_bright and rn as they are
\* and sets hue1 = 0, hue2 = 96, ptr1 = 0, ptr2 = 8. So the frames sent are
\* as many as the ticks run in states 1..7.
C18_FramePerTick ==
  /\ [](TickDone => shown = ticks - ZeroTicks(ticks))
  /\ []((prog = "demo" /\ pc = "count" /\ state \in 1..7) =>
          frame = NEO_show(NEO_hue, NEO_bright))
  /\ [][ prog = "demo" =>
           /\ (SwitchStep /\ state = 0) =>
                /\ pc' = "count"
                /\ NEO_hue' = NEO_hue /\ NEO_bright' = NEO_bright /\ rn' = rn
                /\ hue1' = 0 /\ hue2' = 96 /\ ptr1' = 0 /\ ptr2' = 8
                /\ frame' = frame /\ shown' = shown
           /\ (SwitchStep /\ state \in 1..7) =>
                (pc' = "show" /\ shown' = shown)
           /\ shown' # shown =>
                /\ pc = "showing" /\ pc' = "count"
                /\ shown' = shown + 1
                /\ frame' = NEO_show(NEO_hue, NEO_bright)
           /\ pc # "animate" =>
                (NEO_hue' = NEO_hue /\ NEO_bright' = NEO_bright /\ rn' = rn) ]_vars

\* the state-0 tick that opens the second cycle has run: 382 frames for
\* 384 ticks, the buffer still as state 7 left it
C18_Witness ==
  /\ prog = "demo" /\ pc = "count" /\ state = 0 /\ ticks = CycleTicks + 1
  /\ shown = CycleTicks - 1
  /\ hue1 = 0 /\ hue2 = 96 /\ ptr1 = 0 /\ ptr2 = 8
  /\ \A i \in Pix : NEO_bright[i] = 6

\* C19: while NEO_show is called and sends its frame the watchdog interrupt
\* is neither armed nor pending (the handler that woke the loop disabled the
\* watchdog and resetWatchdog() comes after the frame), so no handler can
\* run inside a frame; the first loop iteration, in which the watchdog is
\* armed, sends no frame.
C19_ShowUnarmed ==
  /\ (prog = "demo" /\ pc \in {"show", "showing"}) =>
       (~wdtie /\ ~wdtif /\ ~pcif /\ ~IntPending /\ ticks >= 2)
  /\ (prog = "demo" /\ ticks <= 1) => shown = 0

\* the frame of the second loop iteration, the first frame, is being sent
C19_Witness ==
  prog = "demo" /\ pc = "showing" /\ ticks = 2 /\ state = 1 /\ shown = 0

\* the cycle is between the end of the state-3 tick and the first state-1
\* tick of the next cycle
AfterRandomize ==
  /\ prog = "demo"
  /\ \/ state = 3 /\ pc \in {"show", "showing", "count"}
     \/ state \in 4..7
     \/ state = 0 /\ ticks > 1
     \/ state = 1 /\ held = 0 /\ ticks > 2
          /\ pc \in {"wdr", "sleep", "asleep", "animate"}

\* C20: from the end of the state-3 tick until the first state-1 tick of
\* the next cycle every one of the 16 pixels has brightness 6.
C20_AllBright == AfterRandomize => \A i \in Pix : NEO_bright[i] = 6

\* state 6 has rotated the buffer for 40 ticks
C20_Witness ==
  /\ prog = "demo" /\ state = 6 /\ held = 40 /\ pc = "count"
  /\ \A i \in Pix : NEO_bright[i] = 6
  /\ \E i, j \in Pix : NEO_hue[i] # NEO_hue[j]

----------------------------------------------------------------------------
(* wof: where a spin lands *)

\* the start speeds the timer can give
StartSpeeds == {StartSpeed(t) : t \in Byte}

\* the spin on record is over
SpinOver ==
  /\ prog = "wof" /\ spin0 # <<>>
  /\ pc \in {"release", "debounce", "sleep", "asleep", "check"}

\* where the code's two loops take each start position for each start speed
LandingMap == [n0 \in Pix |-> [s \in StartSpeeds |-> Landing(n0, s)]]

\* the start speeds are the 16 values 16..31, each given by 16 of the 256
\* timer values; from every start position the 16 speeds lead to 16
\* different positions, which are all the 16 pixels
LandingBijective ==
  /\ StartSpeeds = 16..31
  /\ \A s \in StartSpeeds : Cardinality({t \in Byte : StartSpeed(t) = s}) = 16
  /\ \A n0 \in Pix :
       /\ \A s \in StartSpeeds : LandingMap[n0][s] = (n0 + s + 94) % 16
       /\ {LandingMap[n0][s] : s \in StartSpeeds} = Pix
       /\ \A s1, s2 \in StartSpeeds :
            LandingMap[n0][s1] = LandingMap[n0][s2] => s1 = s2

\* C21: a spin that starts at n0 with speed s ends at (n0 + s + 94) mod 16,
\* and the position it ends at gives s back; the map from the 16 start
\* speeds 16..31 to the end positions is, for every start position, one to
\* one and onto the 16 pixels.
C21_Landing ==
  /\ LandingBijective
  /\ SpinOver =>
       /\ spin0.n0 \in Pix /\ spin0.s \in StartSpeeds
       /\ number = (spin0.n0 + spin0.s + 94) % 16
       /\ number = LandingMap[spin0.n0][spin0.s]
       /\ spin0.s = 16 + ((number + 16 - spin0.n0 + 2) % 16)

\* a second spin, started at pixel 13 with the lowest speed, has ended at
\* pixel 11
C21_Witness ==
  /\ SpinOver /\ pc = "release" /\ spins = 2
  /\ spin0.n0 = 13 /\ spin0.s = 16 /\ number = 11

=============================================================================
